---- MODULE Spec2Model ----
(***************************************************************************)
(* Command dispatch of Code-Buddy: the interaction handler (default export *)
(* of the interactionCreate listener) and processCommandInteraction, i.e.  *)
(* the authorization chain, the rate-limit policy evaluation and the       *)
(* handler invocation, over the per-command rate-limit managers.           *)
(***************************************************************************)
EXTENDS Integers, Sequences, FiniteSets, TLC

\* ------------------------------------------------------------------ bounds
\* Number of clock advances of a behaviour (each of half a window).
MaxTicks == 2
\* Interactions received in a behaviour of the overlapping specifications.
MaxEvents == 2

\* --------------------------------------------------------------- universe
\* undefined values, each of the type of the value it stands in for
NoGuild == "NoGuild"           \* interaction.guild undefined (DM)
NoRateLimit == "NoRateLimit"   \* manager?.acquire(id) === undefined
NoPermissions == [defined |-> FALSE, allow |-> {}]   \* interaction.member undefined
NoRequirement == [defined |-> FALSE, list |-> <<>>]  \* requiredXPermissions undefined
NoPolicy ==                                          \* command.ratelimit undefined
    [defined |-> FALSE, global |-> FALSE, guild |-> FALSE, user |-> FALSE]
NoBucket == [exists |-> FALSE, count |-> 0, windowStart |-> 0]

Scopes == {"global", "guild", "user"}
Owner == "owner"
Users == {Owner, "u1"}
Guilds == {"g1"}
RegisteredNames == {"cmd"}
Names == RegisteredNames \cup {"nope"}
\* Invocations of the listener in flight.
TaskIds == {"t1"}

\* Bucket identifiers: the command name (global), the guild id, the user id.
\* A second user, guild and command, for the specification of independent
\* scopes.
OtherUser == "u2"
OtherGuild == "g2"
OtherName == "cmd2"

Ids == Names \cup Guilds \cup Users \cup {NoGuild}
WideIds == Ids \cup {OtherUser, OtherGuild, OtherName}

\* Permission lists the repository's commands declare (automate command).
BotPermissionList ==
    [defined |-> TRUE, list |-> <<"SEND_MESSAGES", "EMBED_LINKS">>]
UserPermissionList ==
    [defined |-> TRUE, list |-> <<"SEND_MESSAGES", "MANAGE_GUILD">>]
AllPermissions == {"SEND_MESSAGES", "EMBED_LINKS", "MANAGE_GUILD"}
\* Permission sets an interaction may carry: a partial one and the full one.
PermissionSets ==
    { [defined |-> TRUE, allow |-> a] : a \in {{"SEND_MESSAGES"}, AllPermissions} }

\* ------------------------------------------------ rate-limit bucket/manager
\* Configuration of every manager (limit=1, windowDurationMs=60000).
limit == 1
windowDurationMs == 60000

FreshBucket(t) == [exists |-> TRUE, count |-> 0, windowStart |-> t]

\* Window expiry: count and windowStart are reset once the window is over.
Refresh(b, t) ==
    IF t >= b.windowStart + windowDurationMs THEN FreshBucket(t) ELSE b

\* limited: after accounting for window expiry, count >= limit.
limited(b, t) == Refresh(b, t).count >= limit

\* remainingTime: windowStart + windowDurationMs - now.
remainingTime(b, t) ==
    LET r == Refresh(b, t) IN r.windowStart + windowDurationMs - t

\* manager.acquire(id): looks the bucket up or creates it, window refreshed.
ManagerAcquire(m, id, t) ==
    [m EXCEPT ![id] = IF ~m[id].exists THEN FreshBucket(t)
                      ELSE Refresh(m[id], t)]

\* bucket.consume(): window refreshed, then count + 1.
ManagerConsume(m, id, t) ==
    LET r == Refresh(m[id], t)
    IN [m EXCEPT ![id] = [r EXCEPT !.count = r.count + 1]]

\* ------------------------------------------------------ command registry
\* Rate-limit policies: for each scope, whether the command configures a
\* manager for it (command.ratelimit.global / .guild / .user).
Policies == [defined : {TRUE}, global : BOOLEAN, guild : BOOLEAN, user : BOOLEAN]

Descriptor(d, s, p, h, rb, ru, rl) ==
    [defined |-> TRUE, disabled |-> d, superUserOnly |-> s, premiumOnly |-> p,
     helperUserOnly |-> h, requiredBotPermissions |-> rb,
     requiredUserPermissions |-> ru, ratelimit |-> rl]

\* Descriptors without a rate-limit policy: every combination of the flags
\* and of the permission requirements.
GateDescriptors ==
    { Descriptor(d, s, p, h, rb, ru, NoPolicy) :
        d \in BOOLEAN, s \in BOOLEAN, p \in BOOLEAN, h \in BOOLEAN,
        rb \in {NoRequirement, BotPermissionList},
        ru \in {NoRequirement, UserPermissionList} }

\* Descriptors with a rate-limit policy: every policy, enabled or disabled,
\* with or without a bot-permission requirement.
LimitedDescriptors ==
    { Descriptor(d, FALSE, FALSE, FALSE, rb, NoRequirement, rl) :
        d \in BOOLEAN, rb \in {NoRequirement, BotPermissionList},
        rl \in Policies }

Descriptors == GateDescriptors \cup LimitedDescriptors

\* commandStoreMap.get(name) === undefined: every command?.x is undefined.
NoCommand ==
    [defined |-> FALSE, disabled |-> FALSE, superUserOnly |-> FALSE,
     premiumOnly |-> FALSE, helperUserOnly |-> FALSE,
     requiredBotPermissions |-> NoRequirement,
     requiredUserPermissions |-> NoRequirement, ratelimit |-> NoPolicy]

\* ---------------------------------------------------------------- messages
Message(site, text, arg, ephemeral) ==
    [site |-> site, text |-> text, arg |-> arg, ephemeral |-> ephemeral]

NoMessage == Message("none", "", <<>>, FALSE)

DisabledMessage ==
    Message("disabled", "This command is currently disabled.", <<>>, TRUE)
SuperUserOnlyMessage ==
    Message("superUserOnly",
            "This command is only available to the bot owner.", <<>>, TRUE)
PremiumOnlyMessage ==
    Message("premiumOnly",
            "This command is only available to premium users.", <<>>, TRUE)
HelperUserOnlyMessage ==
    Message("helperUserOnly",
            "This command is only available to helper users.", <<>>, TRUE)
BotPermissionsMessage(required) ==
    Message("requiredBotPermissions", "Missing Permissions", required.list,
            FALSE)
UserPermissionsMessage(required) ==
    Message("requiredUserPermissions", "Missing Permissions", required.list,
            TRUE)
GlobalLimitedMessage(ms) ==
    Message("global", "This command is currently rate-limited globally.",
            <<ms>>, TRUE)
GuildLimitedMessage(ms) ==
    Message("guild", "This command is currently rate-limited in this guild.",
            <<ms>>, TRUE)
UserLimitedMessage(ms) ==
    Message("user", "This command is currently rate-limited for you.",
            <<ms>>, TRUE)
NotFoundMessage ==
    Message("notFound", "Command could not be found.", <<>>, TRUE)
ErrorMessage(name) ==
    Message("error", "An error occurred while running command", <<name>>,
            FALSE)

AuthorizationSites ==
    {"disabled", "superUserOnly", "premiumOnly", "helperUserOnly",
     "requiredBotPermissions", "requiredUserPermissions"}

\* ------------------------------------------------------------ interactions
Interaction(n, u, g, p, ap, mp) ==
    [name |-> n, user |-> u, guild |-> g, premium |-> p,
     appPermissions |-> ap, memberPermissions |-> mp]

FullPermissions == [defined |-> TRUE, allow |-> AllPermissions]

\* The interactions that name a command of descriptor `command`. member is
\* present only in a guild. A field the descriptor never makes the
\* dispatcher read (the premium lookup without premiumOnly, appPermissions
\* without requiredBotPermissions, member without requiredUserPermissions,
\* guild without either ratelimit or requiredUserPermissions) is left at
\* one value.
InteractionsOf(n, command) ==
    LET guilds == IF command.ratelimit.defined
                     \/ command.requiredUserPermissions.defined
                  THEN Guilds \cup {NoGuild} ELSE {NoGuild}
        premiums == IF command.premiumOnly THEN BOOLEAN ELSE {FALSE}
        apps == IF command.requiredBotPermissions.defined
                THEN PermissionSets ELSE {FullPermissions}
        members(g) == IF g = NoGuild THEN {NoPermissions}
                      ELSE IF command.requiredUserPermissions.defined
                           THEN PermissionSets ELSE {FullPermissions}
    IN UNION { { Interaction(n, u, g, p, ap, mp) :
                   u \in Users, p \in premiums, ap \in apps,
                   mp \in members(g) } : g \in guilds }

isOwner(user) == user = Owner

\* permissions?.has(...required): undefined when there is no permission set.
has(permissions, required) ==
    /\ permissions.defined
    /\ \A k \in 1..Len(required.list) : required.list[k] \in permissions.allow

\* ------------------------------------------------- processCommandInteraction
\* The synchronous part of processCommandInteraction, from its first line to
\* the call it awaits (createMessage or run), as a chain of steps over
\*   returned  the function has reached a return statement
\*   call      the call whose promise it then awaits
\*   trace     the conditions and manager calls evaluated, in order
\*   bk        the buckets of the command's three managers
\*   rl        the RateLimit handle acquired for each scope
NoAwait == [kind |-> "none", msg |-> NoMessage]
RunCall == [kind |-> "run", msg |-> NoMessage]
CreateMessageCall(msg) == [kind |-> "createMessage", msg |-> msg]

Start(bk) ==
    [returned |-> FALSE, call |-> NoAwait, trace |-> <<>>, bk |-> bk,
     rl |-> [s \in Scopes |-> NoRateLimit]]

Evaluated(s, step) == [s EXCEPT !.trace = Append(@, step)]

\* Mutant: the createMessage call without the return.
createMessage_NoReturn(s, msg) ==
    [s EXCEPT !.call = CreateMessageCall(msg)]

\* return await interaction.createMessage(msg)
createMessage(s, msg) ==
    [s EXCEPT !.returned = TRUE, !.call = CreateMessageCall(msg)]

\* Mutant: the disabled check without the owner exemption.
CheckDisabled_NoOwnerBypass(s, command, i) ==
    IF s.returned THEN s
    ELSE LET e == Evaluated(s, <<"check", "disabled">>)
         IN IF command.disabled
            THEN createMessage(e, DisabledMessage) ELSE e

CheckDisabled(s, command, i) ==
    IF s.returned THEN s
    ELSE LET e == Evaluated(s, <<"check", "disabled">>)
         IN IF command.disabled /\ ~isOwner(i.user)
            THEN createMessage(e, DisabledMessage) ELSE e

CheckSuperUserOnly(s, command, i) ==
    IF s.returned THEN s
    ELSE LET e == Evaluated(s, <<"check", "superUserOnly">>)
         IN IF command.superUserOnly /\ ~isOwner(i.user)
            THEN createMessage(e, SuperUserOnlyMessage) ELSE e

CheckPremiumOnly(s, command, i) ==
    IF s.returned THEN s
    ELSE LET e == Evaluated(s, <<"check", "premiumOnly">>)
         IN IF command.premiumOnly /\ ~i.premium /\ ~isOwner(i.user)
            THEN createMessage(e, PremiumOnlyMessage) ELSE e

CheckHelperUserOnly(s, command, i) ==
    IF s.returned THEN s
    ELSE LET e == Evaluated(s, <<"check", "helperUserOnly">>)
         IN IF command.helperUserOnly /\ ~isOwner(i.user)
            THEN createMessage(e, HelperUserOnlyMessage) ELSE e

CheckBotPermissions(s, command, i) ==
    IF s.returned THEN s
    ELSE LET e == Evaluated(s, <<"check", "requiredBotPermissions">>)
         IN IF /\ command.requiredBotPermissions.defined
               /\ ~has(i.appPermissions, command.requiredBotPermissions)
            THEN createMessage(e,
                     BotPermissionsMessage(command.requiredBotPermissions))
            ELSE e

\* Mutant: the user-permission check without the owner exemption.
CheckUserPermissions_NoOwnerBypass(s, command, i) ==
    IF s.returned THEN s
    ELSE LET e == Evaluated(s, <<"check", "requiredUserPermissions">>)
         IN IF /\ command.requiredUserPermissions.defined
               /\ ~has(i.memberPermissions, command.requiredUserPermissions)
            THEN createMessage(e,
                     UserPermissionsMessage(command.requiredUserPermissions))
            ELSE e

CheckUserPermissions(s, command, i) ==
    IF s.returned THEN s
    ELSE LET e == Evaluated(s, <<"check", "requiredUserPermissions">>)
         IN IF /\ command.requiredUserPermissions.defined
               /\ ~isOwner(i.user)
               /\ ~has(i.memberPermissions, command.requiredUserPermissions)
            THEN createMessage(e,
                     UserPermissionsMessage(command.requiredUserPermissions))
            ELSE e

\* Mutant: acquire on a manager the policy does not configure.
acquire_Unconditional(s, manager, scope, id, t) ==
    [Evaluated(s, <<"acquire", scope>>) EXCEPT
        !.bk[scope] = ManagerAcquire(@, id, t), !.rl[scope] = id]

\* manager?.acquire(id): nothing when the policy has no manager for the scope.
\* Mutant: every scope acquired from the global manager.
acquire_SharedManager(s, manager, scope, id, t) ==
    IF manager
    THEN [Evaluated(s, <<"acquire", scope>>) EXCEPT
             !.bk["global"] = ManagerAcquire(@, id, t), !.rl[scope] = id]
    ELSE s

acquire(s, manager, scope, id, t) ==
    IF manager
    THEN [Evaluated(s, <<"acquire", scope>>) EXCEPT
             !.bk[scope] = ManagerAcquire(@, id, t), !.rl[scope] = id]
    ELSE s

\* RateLimit?.consume(): nothing when no RateLimit was acquired.
consume(s, scope, t) ==
    IF s.rl[scope] # NoRateLimit
    THEN [Evaluated(s, <<"consume", scope>>) EXCEPT
             !.bk[scope] = ManagerConsume(@, s.rl[scope], t)]
    ELSE s

\* RateLimit?.limited
Limited(s, scope, t) ==
    /\ s.rl[scope] # NoRateLimit
    /\ limited(s.bk[scope][s.rl[scope]], t)

RemainingTime(s, scope, t) == remainingTime(s.bk[scope][s.rl[scope]], t)

GlobalScope(s, command, t) ==
    IF s.returned THEN s
    ELSE IF command.ratelimit.global
         THEN LET e == Evaluated(s, <<"strict", "global">>)
              IN IF Limited(e, "global", t)
                 THEN createMessage(e,
                          GlobalLimitedMessage(RemainingTime(e, "global", t)))
                 ELSE e
         ELSE consume(Evaluated(s, <<"passive", "global">>), "global", t)

\* Mutant: the guild scope evaluated without the interaction.guild test.
GuildScope_AnyContext(s, command, i, t) ==
    IF s.returned THEN s
    ELSE LET a == acquire(s, command.ratelimit.guild, "guild", i.guild, t)
         IN IF command.ratelimit.guild
            THEN LET e == Evaluated(a, <<"strict", "guild">>)
                 IN IF Limited(e, "guild", t)
                    THEN createMessage(e,
                             GuildLimitedMessage(RemainingTime(e, "guild", t)))
                    ELSE e
            ELSE consume(Evaluated(a, <<"passive", "guild">>), "guild", t)

GuildScope(s, command, i, t) ==
    IF s.returned \/ i.guild = NoGuild THEN s
    ELSE LET a == acquire(s, command.ratelimit.guild, "guild", i.guild, t)
         IN IF command.ratelimit.guild
            THEN LET e == Evaluated(a, <<"strict", "guild">>)
                 IN IF Limited(e, "guild", t)
                    THEN createMessage(e,
                             GuildLimitedMessage(RemainingTime(e, "guild", t)))
                    ELSE e
            ELSE consume(Evaluated(a, <<"passive", "guild">>), "guild", t)

\* Mutant: a strict user scope that passes its check is consumed.
UserScope_ConsumesOnPass(s, command, t) ==
    IF s.returned THEN s
    ELSE IF command.ratelimit.user
         THEN LET e == Evaluated(s, <<"strict", "user">>)
              IN IF Limited(e, "user", t)
                 THEN createMessage(e,
                          UserLimitedMessage(RemainingTime(e, "user", t)))
                 ELSE consume(e, "user", t)
         ELSE consume(Evaluated(s, <<"passive", "user">>), "user", t)

UserScope(s, command, t) ==
    IF s.returned THEN s
    ELSE IF command.ratelimit.user
         THEN LET e == Evaluated(s, <<"strict", "user">>)
              IN IF Limited(e, "user", t)
                 THEN createMessage(e,
                          UserLimitedMessage(RemainingTime(e, "user", t)))
                 ELSE e
         ELSE consume(Evaluated(s, <<"passive", "user">>), "user", t)

\* Mutant: the rate-limit block entered for the owner too.
RateLimit_NoOwnerExemption(s, command, i, t) ==
    IF s.returned \/ ~command.ratelimit.defined THEN s
    ELSE LET g == acquire(s, command.ratelimit.global, "global", i.name, t)
             u == acquire(g, command.ratelimit.user, "user", i.user, t)
         IN UserScope(GuildScope(GlobalScope(u, command, t), command, i, t),
                      command, t)

\* Mutant: an await between the acquires and the first limited test.
RateLimit_AwaitsAfterAcquire(s, command, i, t) ==
    IF s.returned \/ ~(command.ratelimit.defined /\ ~isOwner(i.user)) THEN s
    ELSE LET g == acquire(s, command.ratelimit.global, "global", i.name, t)
             u == acquire(g, command.ratelimit.user, "user", i.user, t)
         IN [u EXCEPT !.returned = TRUE,
                      !.call = [kind |-> "await", msg |-> NoMessage]]

RateLimit(s, command, i, t) ==
    IF s.returned \/ ~(command.ratelimit.defined /\ ~isOwner(i.user)) THEN s
    ELSE LET g == acquire(s, command.ratelimit.global, "global", i.name, t)
             u == acquire(g, command.ratelimit.user, "user", i.user, t)
         IN UserScope(GuildScope(GlobalScope(u, command, t), command, i, t),
                      command, t)

\* await (command ? command.run(...) : await interaction.createMessage(...))
\* Mutant: run invoked without testing that the command was found.
Invoke_Unconditional(s, command) ==
    IF s.returned THEN s
    ELSE [Evaluated(s, <<"run", "run">>) EXCEPT
             !.returned = TRUE, !.call = RunCall]

Invoke(s, command) ==
    IF s.returned THEN s
    ELSE IF command.defined
         THEN [Evaluated(s, <<"run", "run">>) EXCEPT
                  !.returned = TRUE, !.call = RunCall]
         ELSE createMessage(s, NotFoundMessage)

\* Mutant: the superUserOnly check placed before the disabled check.
processCommandInteraction_SuperUserFirst(i, command, bk, t) ==
    LET a == CheckSuperUserOnly(Start(bk), command, i)
        b == CheckDisabled(a, command, i)
        c == CheckPremiumOnly(b, command, i)
        d == CheckHelperUserOnly(c, command, i)
        e == CheckBotPermissions(d, command, i)
        f == CheckUserPermissions(e, command, i)
    IN Invoke(RateLimit(f, command, i, t), command)

processCommandInteraction(i, command, bk, t) ==
    LET a == CheckDisabled(Start(bk), command, i)
        b == CheckSuperUserOnly(a, command, i)
        c == CheckPremiumOnly(b, command, i)
        d == CheckHelperUserOnly(c, command, i)
        e == CheckBotPermissions(d, command, i)
        f == CheckUserPermissions(e, command, i)
    IN Invoke(RateLimit(f, command, i, t), command)

\* ------------------------------------------------------------------- state
VARIABLES
    commandStoreMap,  \* Main.collections.commands.commandStoreMap
    buckets,          \* the buckets of each command's managers, per scope
    now,              \* Date.now(), in ms
    tasks,            \* the listener's invocations, one per interaction
    config,           \* config.IsInDevelopmentMode
    stats,            \* the GlobalStatsModel document { find_id: 'global' }
    tags,             \* the tag documents of the tags plugin
    tagRuns,          \* the invocations of the tag command's run
    jamStore,         \* the code-jam documents of the database, by guild_id
    jamCache,         \* CodeJamCommandPlugin.cache
    jamOps,           \* the calls of the plugin's methods
    cachingDisabled   \* CodeJamCommandPlugin.cachingDisabled

vars == <<commandStoreMap, buckets, now, tasks, config, stats, tags, tagRuns,
          jamStore, jamCache, jamOps, cachingDisabled>>
jamVars == <<jamStore, jamCache, jamOps, cachingDisabled>>
dispatchVars ==
    <<commandStoreMap, buckets, now, tasks, config, stats, tags, tagRuns>>

\* --------------------------------------------------- tag command (tag.ts)
TagNames == {"a", "b"}
TagContents == {"x", "y"}
SubCommands == {"create", "delete", "edit", "list", "view"}
TagRunIds == {"r1"}
\* TagLimits.MAX_CREATED_TAGS
MAX_CREATED_TAGS == 2

ManageMessages == [defined |-> TRUE, list |-> <<"MANAGE_MESSAGES">>]
\* Member permission sets: without and with Manage Messages.
MemberPermissionSets ==
    { [defined |-> TRUE, allow |-> a] : a \in {{}, {"MANAGE_MESSAGES"}} }

Tag(guild, name, content) ==
    [guild |-> guild, name |-> name, content |-> content]

\* The tags plugin, as the command uses it.
GetTags(store, guild) == SelectSeq(store, LAMBDA d : d.guild = guild)
GetTag(store, guild, name) ==
    \E k \in DOMAIN store : store[k].guild = guild /\ store[k].name = name
GetTagLimit(store, guild) ==
    [limited |-> Len(GetTags(store, guild)) >= MAX_CREATED_TAGS]
CreateTag(store, guild, name, content) ==
    Append(store, Tag(guild, name, content))
DeleteTag(store, guild, name) ==
    SelectSeq(store, LAMBDA d : ~(d.guild = guild /\ d.name = name))
UpdateTag(store, guild, name, content) ==
    [k \in DOMAIN store |->
        IF store[k].guild = guild /\ store[k].name = name
        THEN Tag(guild, name, content) ELSE store[k]]

TagInvocation(sub, user, guild, member, name, content) ==
    [sub |-> sub, user |-> user, guild |-> guild, member |-> member,
     name |-> name, content |-> content]

TagInvocations ==
    { TagInvocation(sub, u, g, m, n, c) :
        sub \in SubCommands, u \in Users, g \in Guilds,
        m \in MemberPermissionSets, n \in TagNames, c \in TagContents }

\* What run awaits next: a followup with a reply, or a call of the plugin.
Followup(reply) == [await |-> "followup", op |-> "none", reply |-> reply]
Store(op) == [await |-> "store", op |-> op, reply |-> "none"]

\* Mutant: the owner exempted from the Manage Messages requirement.
Permitted_OwnerExempt(i) == has(i.member, ManageMessages) \/ isOwner(i.user)

\* interaction.member?.permissions.has(Permissions.MANAGE_MESSAGES)
Permitted(i) == has(i.member, ManageMessages)

create(store, i) ==
    IF ~Permitted(i) THEN Followup("needPermission")
    ELSE IF GetTagLimit(store, i.guild).limited THEN Followup("limitReached")
    ELSE IF GetTag(store, i.guild, i.name) THEN Followup("exists")
    ELSE Store("CreateTag")

delete(store, i) ==
    IF ~Permitted(i) THEN Followup("needPermission")
    ELSE IF ~GetTag(store, i.guild, i.name) THEN Followup("missing")
    ELSE Store("DeleteTag")

edit(store, i) ==
    IF ~Permitted(i) THEN Followup("needPermission")
    ELSE IF ~GetTag(store, i.guild, i.name) THEN Followup("missing")
    ELSE Store("UpdateTag")

list(store, i) == Followup("list")

view(store, i) ==
    IF GetTag(store, i.guild, i.name) THEN Followup("content")
    ELSE Followup("notFound")

\* run, from the end of defer to the call it awaits next.
run(store, i) ==
    CASE i.sub = "create" -> create(store, i)
      [] i.sub = "delete" -> delete(store, i)
      [] i.sub = "edit" -> edit(store, i)
      [] i.sub = "list" -> list(store, i)
      [] i.sub = "view" -> view(store, i)
      [] OTHER -> Followup("invalid")

NoTagInvocation ==
    TagInvocation("list", Owner, "g1", [defined |-> TRUE, allow |-> {}],
                  "a", "x")

\* pc: idle, defer (awaiting interaction.defer()), store (awaiting the
\* plugin call op), followup (awaiting createFollowup), done.
IdleRun ==
    [pc |-> "idle", i |-> NoTagInvocation, op |-> "none", reply |-> "none"]

\* ------------------------------------- code-jam plugin (jam/index.ts)
JamNames == {"n1", "n2"}
JamUsers == {"u1"}
\* init is the call the constructor makes; the others are calls of
\* createCodeJam, deleteCodeJam, updateJamName, addJamParticipant or
\* removeJamParticipant, each made once.
JamOpIds == {"init", "o1", "o2"}
JamKinds == {"createCodeJam", "deleteCodeJam", "updateJamName",
             "addJamParticipant", "removeJamParticipant"}

\* A document; exists is false for null / no entry.
Jam(name, participants) ==
    [exists |-> TRUE, name |-> name, participants |-> participants]
NoJam == [exists |-> FALSE, name |-> "", participants |-> <<>>]
NoJams == [g \in Guilds |-> NoJam]

\* $pull: every occurrence of the user removed.
Pull(participants, user) == SelectSeq(participants, LAMBDA u : u # user)

\* The document the query leaves in the store for the guild; updates are
\* upserts, on a document without a name when there is none.
JamQuery(op, doc) ==
    LET base == IF doc.exists THEN doc ELSE Jam("", <<>>)
    IN CASE op.kind = "createCodeJam" -> Jam(op.name, <<>>)
         [] op.kind = "deleteCodeJam" -> NoJam
         [] op.kind = "updateJamName" -> [base EXCEPT !.name = op.name]
         [] op.kind = "addJamParticipant" ->
                [base EXCEPT !.participants = Append(@, op.user)]
         [] op.kind = "removeJamParticipant" ->
                [base EXCEPT !.participants = Pull(@, op.user)]

\* pc: idle (not called), sent (the query is awaited), applied (the store
\* has run the query and its response is on its way), done.
\* result: the document the query returned; found: what find() returned.
IdleOp ==
    [pc |-> "idle", kind |-> "init", guild |-> "g1", name |-> "",
     user |-> "u1", result |-> NoJam, found |-> NoJams]

\* A method called: it runs to its awaited query. name and user are the
\* arguments the method takes, if any.
JamCall(k, g, n, u) ==
    [IdleOp EXCEPT !.pc = "sent", !.kind = k, !.guild = g, !.name = n,
                   !.user = u]
JamCalls ==
    { JamCall(k, g, n, "u1") :
        k \in {"createCodeJam", "updateJamName"}, g \in Guilds,
        n \in JamNames }
    \cup { JamCall("deleteCodeJam", g, "", "u1") : g \in Guilds }
    \cup { JamCall(k, g, "", u) :
             k \in {"addJamParticipant", "removeJamParticipant"},
             g \in Guilds, u \in JamUsers }

\* The plugin unused: nothing stored, nothing cached, no call made.
JamUnused ==
    /\ jamStore = NoJams
    /\ jamCache = NoJams
    /\ jamOps = [o \in JamOpIds |-> IdleOp]
    /\ cachingDisabled = FALSE

\* The global statistics document. Specifications that do not bound the
\* number of interactions leave it unobserved; the others count from zero.
\* $inc on the observed document adds one to the field.
UnobservedStats ==
    [observed |-> FALSE, commands_executed |-> 0, commands_failed |-> 0]
ZeroStats ==
    [observed |-> TRUE, commands_executed |-> 0, commands_failed |-> 0]
Inc(doc, field) ==
    IF doc.observed THEN [doc EXCEPT ![field] = @ + 1] ELSE doc

NoInteraction ==
    [name |-> "nope", user |-> Owner, guild |-> NoGuild, premium |-> FALSE,
     appPermissions |-> [defined |-> TRUE, allow |-> AllPermissions],
     memberPermissions |-> NoPermissions]

EmptyManagers == [s \in Scopes |-> [id \in Ids |-> NoBucket]]

\* pc: idle, telemetry (awaiting the commands_executed update), awaiting
\* (awaiting createMessage or run), catch (in the catch block), failing
\* (awaiting the commands_failed update), done.
\* error: what was thrown into the catch block; executed, failed: the
\* increments of commands_executed and commands_failed the invocation has
\* applied; propagated: the listener's promise rejected; arrival: the
\* position of the interaction in the order of receipt (overlapping
\* specifications only).
\* replies: the messages createMessage was called with; runs: the calls of
\* command.run; at, before, after: the time and the command's managers
\* when processCommandInteraction started, and the managers when it
\* suspended.
IdleTask ==
    [pc |-> "idle", i |-> NoInteraction, call |-> NoAwait, trace |-> <<>>,
     replies |-> <<>>, runs |-> 0, errored |-> FALSE, at |-> 0,
     before |-> EmptyManagers, after |-> EmptyManagers,
     error |-> "none", executed |-> 0, failed |-> 0, propagated |-> FALSE,
     arrival |-> 0]

Lookup(name) ==
    IF name \in DOMAIN commandStoreMap THEN commandStoreMap[name]
    ELSE NoCommand

ManagersOf(name) ==
    IF name \in DOMAIN buckets THEN buckets[name] ELSE EmptyManagers

\* A bucket a consumer outside the dispatcher has exhausted in the window
\* that starts at time 0.
ExhaustedBucket == [exists |-> TRUE, count |-> limit, windowStart |-> 0]

\* The identifiers the dispatcher acquires in a scope: the command name,
\* a guild id, the id of a user who is not the owner.
CallerIds(name, scope) ==
    CASE scope = "global" -> {name}
      [] scope = "guild" -> Guilds
      [] scope = "user" -> Users \ {Owner}

ManagerWith(exhausted) ==
    [id \in Ids |-> IF id \in exhausted THEN ExhaustedBucket ELSE NoBucket]

\* The managers of a command when the first interaction arrives: in each
\* scope the policy configures, a caller's bucket is absent or exhausted;
\* every other bucket is absent.
InitialManagers(name, policy) ==
    LET candidates(s) == IF policy[s] THEN CallerIds(name, s) ELSE {}
    IN { [global |-> ManagerWith(g), guild |-> ManagerWith(d),
          user |-> ManagerWith(u)] :
            g \in SUBSET candidates("global"),
            d \in SUBSET candidates("guild"),
            u \in SUBSET candidates("user") }

UserOnlyPolicy ==
    [defined |-> TRUE, global |-> FALSE, guild |-> FALSE, user |-> TRUE]

FullPolicy ==
    [defined |-> TRUE, global |-> TRUE, guild |-> TRUE, user |-> TRUE]

Init ==
    /\ commandStoreMap \in [RegisteredNames -> Descriptors]
    /\ buckets \in [RegisteredNames ->
                      UNION { InitialManagers(n, FullPolicy) :
                                n \in RegisteredNames }]
    /\ \A n \in RegisteredNames :
           buckets[n] \in InitialManagers(n, commandStoreMap[n].ratelimit)
    /\ now = 0
    /\ tasks = [t \in TaskIds |-> IdleTask]
    /\ config = [IsInDevelopmentMode |-> FALSE]
    /\ tags = <<>>
    /\ stats = UnobservedStats
    /\ tagRuns = [r \in TagRunIds |-> IdleRun]
    /\ JamUnused

\* ----------------------------------------------------------------- actions
Settled(t) == tasks[t].pc \in {"idle", "done"}

\* The listener is called with an APPLICATION_COMMAND interaction and
\* suspends on the commands_executed update (lines 10-23). Interactions
\* arrive one at a time: the next one once the previous invocation has
\* returned, whose record it replaces.
Receive(t, i) ==
    /\ \A u \in DOMAIN tasks : Settled(u)
    /\ tasks' = [u \in DOMAIN tasks |->
                    IF u = t THEN [IdleTask EXCEPT !.pc = "telemetry", !.i = i]
                    ELSE IdleTask]
    /\ UNCHANGED <<commandStoreMap, buckets, now, config, stats, tags, tagRuns, jamVars>>

\* Mutant: commands_executed incremented only when the handler is invoked.
Process_CountsExecutions(t) ==
    /\ tasks[t].pc = "telemetry"
    /\ LET i == tasks[t].i
           r == processCommandInteraction(i, Lookup(i.name),
                                          ManagersOf(i.name), now)
       IN /\ tasks' = [tasks EXCEPT ![t] =
                 [@ EXCEPT !.pc = "awaiting", !.call = r.call,
                           !.executed = IF r.call.kind = "run" THEN @ + 1 ELSE @,
                           !.trace = r.trace, !.at = now,
                           !.replies = IF r.call.kind = "createMessage"
                                       THEN Append(@, r.call.msg) ELSE @,
                           !.runs = IF r.call.kind = "run" THEN @ + 1 ELSE @,
                           !.before = ManagersOf(i.name), !.after = r.bk]]
          /\ buckets' = IF i.name \in DOMAIN buckets
                        THEN [buckets EXCEPT ![i.name] = r.bk]
                        ELSE buckets
          /\ stats' = IF r.call.kind = "run"
                      THEN Inc(stats, "commands_executed") ELSE stats
    /\ UNCHANGED <<commandStoreMap, now, config, tags, tagRuns, jamVars>>

\* The update resolves and processCommandInteraction runs to the call it
\* awaits (lines 24, 57-271).
Process(t) ==
    /\ tasks[t].pc = "telemetry"
    /\ LET i == tasks[t].i
           r == processCommandInteraction(i, Lookup(i.name),
                                          ManagersOf(i.name), now)
       IN /\ tasks' = [tasks EXCEPT ![t] =
                 [@ EXCEPT !.pc = "awaiting", !.call = r.call,
                           !.executed = @ + 1,
                           !.trace = r.trace, !.at = now,
                           !.replies = IF r.call.kind = "createMessage"
                                       THEN Append(@, r.call.msg) ELSE @,
                           !.runs = IF r.call.kind = "run" THEN @ + 1 ELSE @,
                           !.before = ManagersOf(i.name), !.after = r.bk]]
          /\ buckets' = IF i.name \in DOMAIN buckets
                        THEN [buckets EXCEPT ![i.name] = r.bk]
                        ELSE buckets
    /\ stats' = Inc(stats, "commands_executed")
    /\ UNCHANGED <<commandStoreMap, now, config, tags, tagRuns, jamVars>>

\* The update rejects: the catch block is entered (line 25).
TelemetryFails(t) ==
    /\ tasks[t].pc = "telemetry"
    /\ tasks' = [tasks EXCEPT ![t] =
           [@ EXCEPT !.pc = "catch", !.error = "telemetry"]]
    /\ UNCHANGED <<commandStoreMap, buckets, now, config, stats, tags, tagRuns, jamVars>>

\* The awaited createMessage or run resolves.
Resolve(t) ==
    /\ tasks[t].pc = "awaiting"
    /\ tasks' = [tasks EXCEPT ![t].pc = "done"]
    /\ UNCHANGED <<commandStoreMap, buckets, now, config, stats, tags, tagRuns, jamVars>>

\* The awaited createMessage or run rejects (line 25).
Reject(t) ==
    /\ tasks[t].pc = "awaiting"
    /\ tasks' = [tasks EXCEPT ![t] =
           [@ EXCEPT !.pc = "catch",
                     !.error = IF tasks[t].call.kind = "run" THEN "handler"
                               ELSE "reply"]]
    /\ UNCHANGED <<commandStoreMap, buckets, now, config, stats, tags, tagRuns, jamVars>>

\* Mutant: the commands_failed update issued in development mode too.
Catch_CountsInDevelopment(t) ==
    /\ tasks[t].pc = "catch"
    /\ tasks' = [tasks EXCEPT ![t] =
           [@ EXCEPT !.pc = "failing",
                     !.errored = TRUE,
                     !.replies = Append(@, ErrorMessage(tasks[t].i.name))]]
    /\ UNCHANGED <<commandStoreMap, buckets, now, config, stats, tags, tagRuns, jamVars>>

\* The catch block: the generic error message, awaited, failures of it
\* swallowed; then, unless in development mode, the commands_failed update
\* is awaited (lines 26-42).
Catch(t) ==
    /\ tasks[t].pc = "catch"
    /\ tasks' = [tasks EXCEPT ![t] =
           [@ EXCEPT !.pc = IF config.IsInDevelopmentMode THEN "done"
                            ELSE "failing",
                     !.errored = TRUE,
                     !.replies = Append(@, ErrorMessage(tasks[t].i.name))]]
    /\ UNCHANGED <<commandStoreMap, buckets, now, config, stats, tags, tagRuns, jamVars>>

\* The commands_failed update resolves (lines 34-41).
FailedUpdateResolves(t) ==
    /\ tasks[t].pc = "failing"
    /\ tasks' = [tasks EXCEPT ![t] = [@ EXCEPT !.pc = "done", !.failed = @ + 1]]
    /\ stats' = Inc(stats, "commands_failed")
    /\ UNCHANGED <<commandStoreMap, buckets, now, config, tags, tagRuns, jamVars>>

\* The commands_failed update rejects inside the catch block: the
\* listener's promise rejects (lines 34-41).
FailedUpdateRejects(t) ==
    /\ tasks[t].pc = "failing"
    /\ tasks' = [tasks EXCEPT ![t] =
           [@ EXCEPT !.pc = "done", !.propagated = TRUE]]
    /\ UNCHANGED <<commandStoreMap, buckets, now, config, stats, tags, tagRuns, jamVars>>

\* Time passes, half a window at a time.
Tick ==
    /\ now < MaxTicks * (windowDurationMs \div 2)
    /\ now' = now + windowDurationMs \div 2
    /\ UNCHANGED <<commandStoreMap, buckets, tasks, config, stats, tags, tagRuns, jamVars>>

Next ==
    \/ \E t \in DOMAIN tasks : \E n \in Names :
           \E i \in InteractionsOf(n, Lookup(n)) : Receive(t, i)
    \/ \E t \in DOMAIN tasks : Process(t)
    \/ \E t \in DOMAIN tasks : TelemetryFails(t)
    \/ \E t \in DOMAIN tasks : Resolve(t)
    \/ \E t \in DOMAIN tasks : Reject(t)
    \/ \E t \in DOMAIN tasks : Catch(t)
    \/ \E t \in DOMAIN tasks : FailedUpdateResolves(t)
    \/ \E t \in DOMAIN tasks : FailedUpdateRejects(t)
    \/ Tick

Spec == Init /\ [][Next]_vars

\* ---------------------------------------------------------- telemetry
\* One command, enabled or disabled, with no rate limit, in production or
\* in development mode; the actions are those of Spec.
InitTelemetry ==
    /\ commandStoreMap \in [RegisteredNames ->
           { Descriptor(d, FALSE, FALSE, FALSE, NoRequirement, NoRequirement,
                        NoPolicy) : d \in BOOLEAN }]
    /\ buckets = [n \in RegisteredNames |-> EmptyManagers]
    /\ now = 0
    /\ tasks = [t \in TaskIds |-> IdleTask]
    /\ config \in [IsInDevelopmentMode : BOOLEAN]
    /\ tags = <<>>
    /\ stats = UnobservedStats
    /\ tagRuns = [r \in TagRunIds |-> IdleRun]
    /\ JamUnused

SpecTelemetry == InitTelemetry /\ [][Next]_vars

\* ------------------------------------------- overlapping invocations
\* The listener is an async function: the emitter calls it for the next
\* interaction while earlier invocations are suspended at an await.
Arrivals ==
    CHOOSE n \in 0..MaxEvents :
        /\ \A t \in DOMAIN tasks : tasks[t].arrival <= n
        /\ n = 0 \/ \E t \in DOMAIN tasks : tasks[t].arrival = n

Arrive(t, i) ==
    /\ Settled(t)
    /\ Arrivals < MaxEvents
    /\ tasks' = [tasks EXCEPT ![t] =
           [IdleTask EXCEPT !.pc = "telemetry", !.i = i,
                            !.arrival = Arrivals + 1]]
    /\ UNCHANGED <<commandStoreMap, buckets, now, config, stats, tags, tagRuns, jamVars>>

ConcurrentTaskIds == {"t1", "t2"}

UserGlobalPolicy ==
    [defined |-> TRUE, global |-> TRUE, guild |-> FALSE, user |-> TRUE]

\* One command limited per user and globally, in production, within one
\* window.
InitConcurrent ==
    /\ commandStoreMap = [n \in RegisteredNames |->
           Descriptor(FALSE, FALSE, FALSE, FALSE, NoRequirement,
                      NoRequirement, UserGlobalPolicy)]
    /\ buckets \in [RegisteredNames ->
                      UNION { InitialManagers(n, UserGlobalPolicy) :
                                n \in RegisteredNames }]
    /\ \A n \in RegisteredNames :
           buckets[n] \in InitialManagers(n, UserGlobalPolicy)
    /\ now = 0
    /\ tasks = [t \in ConcurrentTaskIds |-> IdleTask]
    /\ config = [IsInDevelopmentMode |-> FALSE]
    /\ tags = <<>>
    /\ stats = UnobservedStats
    /\ tagRuns = [r \in TagRunIds |-> IdleRun]
    /\ JamUnused

NextConcurrent ==
    \/ \E t \in DOMAIN tasks : \E n \in DOMAIN commandStoreMap :
           \E i \in InteractionsOf(n, Lookup(n)) : Arrive(t, i)
    \/ \E t \in DOMAIN tasks : Process(t)
    \/ \E t \in DOMAIN tasks : TelemetryFails(t)
    \/ \E t \in DOMAIN tasks : Resolve(t)
    \/ \E t \in DOMAIN tasks : Reject(t)
    \/ \E t \in DOMAIN tasks : Catch(t)
    \/ \E t \in DOMAIN tasks : FailedUpdateResolves(t)
    \/ \E t \in DOMAIN tasks : FailedUpdateRejects(t)

SpecConcurrent == InitConcurrent /\ [][NextConcurrent]_vars

\* ------------------------------------------------------- statistics
\* The statistics document observed, with every update of it succeeding:
\* one command, disabled or limited per user, the user's bucket absent or
\* exhausted; known and unknown names; invocations overlapping.
StatsDescriptors ==
    { Descriptor(TRUE, FALSE, FALSE, FALSE, NoRequirement, NoRequirement,
                 NoPolicy),
      Descriptor(FALSE, FALSE, FALSE, FALSE, NoRequirement, NoRequirement,
                 UserOnlyPolicy) }

InitStats ==
    /\ commandStoreMap \in [RegisteredNames -> StatsDescriptors]
    /\ buckets \in [RegisteredNames ->
                      UNION { InitialManagers(n, UserOnlyPolicy) :
                                n \in RegisteredNames }]
    /\ \A n \in RegisteredNames :
           buckets[n] \in InitialManagers(n, commandStoreMap[n].ratelimit)
    /\ now = 0
    /\ tasks = [t \in ConcurrentTaskIds |-> IdleTask]
    /\ config = [IsInDevelopmentMode |-> FALSE]
    /\ tags = <<>>
    /\ stats = ZeroStats
    /\ tagRuns = [r \in TagRunIds |-> IdleRun]
    /\ JamUnused

NextStats ==
    \/ \E t \in DOMAIN tasks : \E n \in Names :
           \E i \in InteractionsOf(n, Lookup(n)) : Arrive(t, i)
    \/ \E t \in DOMAIN tasks : Process(t)
    \/ \E t \in DOMAIN tasks : Resolve(t)
    \/ \E t \in DOMAIN tasks : Reject(t)
    \/ \E t \in DOMAIN tasks : Catch(t)
    \/ \E t \in DOMAIN tasks : FailedUpdateResolves(t)

SpecStats == InitStats /\ [][NextStats]_vars

\* ------------------------------------------------------ tag command
\* command.run is called for the tag command (tag.ts line 65): defer is
\* awaited.
TagInvoke(r, i) ==
    /\ tagRuns[r].pc \in {"idle", "done"}
    /\ tagRuns' = [tagRuns EXCEPT ![r] =
           [IdleRun EXCEPT !.pc = "defer", !.i = i]]
    /\ UNCHANGED <<commandStoreMap, buckets, now, tasks, config, stats, tags, jamVars>>

\* defer resolves and run continues to the call it awaits next (66-191).
TagRun(r) ==
    /\ tagRuns[r].pc = "defer"
    /\ LET next == run(tags, tagRuns[r].i)
       IN tagRuns' = [tagRuns EXCEPT ![r] =
              [@ EXCEPT !.pc = next.await, !.op = next.op,
                        !.reply = next.reply]]
    /\ UNCHANGED <<commandStoreMap, buckets, now, tasks, config, stats, tags, jamVars>>

\* The plugin call resolves: the document store has changed, and the
\* followup that reports it is awaited (100-110, 132-136, 159-163).
TagStoreResolves(r) ==
    /\ tagRuns[r].pc = "store"
    /\ LET i == tagRuns[r].i
           op == tagRuns[r].op
       IN /\ tags' = CASE op = "CreateTag" ->
                            CreateTag(tags, i.guild, i.name, i.content)
                        [] op = "DeleteTag" -> DeleteTag(tags, i.guild, i.name)
                        [] op = "UpdateTag" ->
                            UpdateTag(tags, i.guild, i.name, i.content)
          /\ tagRuns' = [tagRuns EXCEPT ![r] =
                 [@ EXCEPT !.pc = "followup",
                           !.reply = CASE op = "CreateTag" -> "created"
                                       [] op = "DeleteTag" -> "deleted"
                                       [] op = "UpdateTag" -> "edited"]]
    /\ UNCHANGED <<commandStoreMap, buckets, now, tasks, config, stats, jamVars>>

\* createFollowup resolves and run returns.
TagFollowupResolves(r) ==
    /\ tagRuns[r].pc = "followup"
    /\ tagRuns' = [tagRuns EXCEPT ![r].pc = "done"]
    /\ UNCHANGED <<commandStoreMap, buckets, now, tasks, config, stats, tags, jamVars>>

InitTags ==
    /\ commandStoreMap = [n \in RegisteredNames |->
           Descriptor(FALSE, FALSE, FALSE, FALSE, NoRequirement,
                      NoRequirement, NoPolicy)]
    /\ buckets = [n \in RegisteredNames |-> EmptyManagers]
    /\ now = 0
    /\ tasks = [t \in TaskIds |-> IdleTask]
    /\ config = [IsInDevelopmentMode |-> FALSE]
    /\ tags = <<>>
    /\ stats = UnobservedStats
    /\ tagRuns = [r \in TagRunIds |-> IdleRun]
    /\ JamUnused

NextTags ==
    \/ \E r \in DOMAIN tagRuns : \E i \in TagInvocations : TagInvoke(r, i)
    \/ \E r \in DOMAIN tagRuns : TagRun(r)
    \/ \E r \in DOMAIN tagRuns : TagStoreResolves(r)
    \/ \E r \in DOMAIN tagRuns : TagFollowupResolves(r)

SpecTags == InitTags /\ [][NextTags]_vars

\* Two invocations of run in flight at once, each a create by a member who
\* holds Manage Messages.
ConcurrentRunIds == {"r1", "r2"}

CreateInvocations ==
    { TagInvocation("create", "u1", g,
                    [defined |-> TRUE, allow |-> {"MANAGE_MESSAGES"}], n, c) :
        g \in Guilds, n \in TagNames, c \in TagContents }

InitTagCreates ==
    /\ commandStoreMap = [n \in RegisteredNames |->
           Descriptor(FALSE, FALSE, FALSE, FALSE, NoRequirement,
                      NoRequirement, NoPolicy)]
    /\ buckets = [n \in RegisteredNames |-> EmptyManagers]
    /\ now = 0
    /\ tasks = [t \in TaskIds |-> IdleTask]
    /\ config = [IsInDevelopmentMode |-> FALSE]
    /\ tags = <<>>
    /\ stats = UnobservedStats
    /\ tagRuns = [r \in ConcurrentRunIds |-> IdleRun]
    /\ JamUnused

NextTagCreates ==
    \/ \E r \in DOMAIN tagRuns : \E i \in CreateInvocations : TagInvoke(r, i)
    \/ \E r \in DOMAIN tagRuns : TagRun(r)
    \/ \E r \in DOMAIN tagRuns : TagStoreResolves(r)
    \/ \E r \in DOMAIN tagRuns : TagFollowupResolves(r)

SpecTagCreates == InitTagCreates /\ [][NextTagCreates]_vars

\* -------------------------------------------------- code-jam plugin
\* A method of the plugin is called (43-98, 121-137, 205-249).
JamCalled(o, call) ==
    /\ o # "init"
    /\ jamOps[o].pc = "idle"
    /\ jamOps' = [jamOps EXCEPT ![o] = call]
    /\ UNCHANGED <<dispatchVars, jamStore, jamCache, cachingDisabled>>

\* The store runs the awaited query of a call: find() reads every document,
\* the others leave the guild's document as JamQuery says.
JamStoreApplies(o) ==
    /\ jamOps[o].pc = "sent"
    /\ LET op == jamOps[o]
       IN IF op.kind = "init"
          THEN /\ jamOps' = [jamOps EXCEPT ![o] =
                      [@ EXCEPT !.pc = "applied", !.found = jamStore]]
               /\ UNCHANGED jamStore
          ELSE LET doc == JamQuery(op, jamStore[op.guild])
               IN /\ jamStore' = [jamStore EXCEPT ![op.guild] = doc]
                  /\ jamOps' = [jamOps EXCEPT ![o] =
                         [@ EXCEPT !.pc = "applied", !.result = doc]]
    /\ UNCHANGED <<dispatchVars, jamCache, cachingDisabled>>

\* The response arrives and the method continues after its await: the cache
\* is set from the response, or the entry deleted (28-32, 84, 97, 136, 223,
\* 248).
JamResponds(o) ==
    /\ jamOps[o].pc = "applied"
    /\ LET op == jamOps[o]
       IN jamCache' =
              IF cachingDisabled THEN jamCache
              ELSE IF op.kind = "init"
                   THEN [g \in Guilds |-> IF op.found[g].exists
                                          THEN op.found[g] ELSE jamCache[g]]
              ELSE IF op.kind = "deleteCodeJam"
                   THEN [jamCache EXCEPT ![op.guild] = NoJam]
              ELSE [jamCache EXCEPT ![op.guild] = op.result]
    /\ jamOps' = [jamOps EXCEPT ![o].pc = "done"]
    /\ UNCHANGED <<dispatchVars, jamStore, cachingDisabled>>

\* The constructor has run: the cache is empty and, with caching enabled,
\* init awaits find(); the database holds no jam or one.
StoredJams == {NoJam, Jam("n1", <<>>), Jam("n1", <<"u1">>)}

InitJam ==
    /\ commandStoreMap = [n \in RegisteredNames |->
           Descriptor(FALSE, FALSE, FALSE, FALSE, NoRequirement,
                      NoRequirement, NoPolicy)]
    /\ buckets = [n \in RegisteredNames |-> EmptyManagers]
    /\ now = 0
    /\ tasks = [t \in TaskIds |-> IdleTask]
    /\ config = [IsInDevelopmentMode |-> FALSE]
    /\ tags = <<>>
    /\ stats = UnobservedStats
    /\ tagRuns = [r \in TagRunIds |-> IdleRun]
    /\ jamStore \in [Guilds -> StoredJams]
    /\ jamCache = NoJams
    /\ cachingDisabled \in BOOLEAN
    /\ jamOps = [o \in JamOpIds |->
           IF o = "init"
           THEN [IdleOp EXCEPT !.pc = IF cachingDisabled THEN "done"
                                      ELSE "sent"]
           ELSE IdleOp]

NextJam ==
    \/ \E o \in DOMAIN jamOps : \E call \in JamCalls : JamCalled(o, call)
    \/ \E o \in DOMAIN jamOps : JamStoreApplies(o)
    \/ \E o \in DOMAIN jamOps : JamResponds(o)

SpecJam == InitJam /\ [][NextJam]_vars

\* ------------------------------------------------- independent scopes
\* Two commands, each limited in every scope, used by two users in two
\* guilds, one interaction at a time; every update and call succeeds.
WideEmptyManagers == [s \in Scopes |-> [id \in WideIds |-> NoBucket]]
WideUsers == (Users \ {Owner}) \cup {OtherUser}
WideGuilds == Guilds \cup {OtherGuild}
WideNames == RegisteredNames \cup {OtherName}

WideInteractions ==
    { Interaction(n, u, g, FALSE, FullPermissions, FullPermissions) :
        n \in WideNames, u \in WideUsers, g \in WideGuilds }

InitScopes ==
    /\ commandStoreMap = [n \in WideNames |->
           Descriptor(FALSE, FALSE, FALSE, FALSE, NoRequirement,
                      NoRequirement, FullPolicy)]
    /\ buckets = [n \in WideNames |-> WideEmptyManagers]
    /\ now = 0
    /\ tasks = [t \in TaskIds |-> IdleTask]
    /\ config = [IsInDevelopmentMode |-> FALSE]
    /\ tags = <<>>
    /\ stats = UnobservedStats
    /\ tagRuns = [r \in TagRunIds |-> IdleRun]
    /\ JamUnused

NextScopes ==
    \/ \E t \in DOMAIN tasks : \E i \in WideInteractions : Arrive(t, i)
    \/ \E t \in DOMAIN tasks : Process(t)
    \/ \E t \in DOMAIN tasks : Resolve(t)
    \/ Tick

SpecScopes == InitScopes /\ [][NextScopes]_vars

\* ------------------------------------------------------------- properties
\* Vocabulary of the properties below, over one invocation t.
Processed(t) == tasks[t].call.kind # "none"
CommandOf(t) == Lookup(tasks[t].i.name)
InTrace(t, step) == \E k \in DOMAIN tasks[t].trace : tasks[t].trace[k] = step
Last(seq) == seq[Len(seq)]
RepliesFrom(t, sites) ==
    SelectSeq(tasks[t].replies, LAMBDA m : m.site \in sites)

\* The six authorization checks in the documented order, and when each one
\* fails for a descriptor and an interaction.
CheckOrder ==
    <<"disabled", "superUserOnly", "premiumOnly", "helperUserOnly",
      "requiredBotPermissions", "requiredUserPermissions">>

Fails(check, command, i) ==
    CASE check = "disabled" -> command.disabled /\ i.user # Owner
      [] check = "superUserOnly" -> command.superUserOnly /\ i.user # Owner
      [] check = "premiumOnly" ->
            command.premiumOnly /\ ~i.premium /\ i.user # Owner
      [] check = "helperUserOnly" -> command.helperUserOnly /\ i.user # Owner
      [] check = "requiredBotPermissions" ->
            /\ command.requiredBotPermissions.defined
            /\ \E k \in DOMAIN command.requiredBotPermissions.list :
                   command.requiredBotPermissions.list[k] \notin i.appPermissions.allow
      [] check = "requiredUserPermissions" ->
            /\ command.requiredUserPermissions.defined
            /\ i.user # Owner
            /\ \/ ~i.memberPermissions.defined
               \/ \E k \in DOMAIN command.requiredUserPermissions.list :
                      command.requiredUserPermissions.list[k]
                          \notin i.memberPermissions.allow

FailingChecks(command, i) ==
    { k \in 1..Len(CheckOrder) : Fails(CheckOrder[k], command, i) }

\* 0 when no check fails.
FirstFailing(command, i) ==
    IF FailingChecks(command, i) = {} THEN 0
    ELSE CHOOSE k \in FailingChecks(command, i) :
             \A j \in FailingChecks(command, i) : k <= j

\* C1: every invocation emits at most one authorization rejection, the one
\* of the first failing check in the order disabled, superUserOnly,
\* premiumOnly, helperUserOnly, requiredBotPermissions,
\* requiredUserPermissions; a disabled and superUserOnly command invoked by a
\* non-owner is rejected with the disabled message, never the owner-only one.
C1_FirstFailureWins ==
    \A t \in TaskIds :
        Processed(t) =>
            LET command == CommandOf(t)
                i == tasks[t].i
                k == FirstFailing(command, i)
                rejections == RepliesFrom(t, AuthorizationSites)
            IN /\ Len(rejections) <= 1
               /\ k = 0 => rejections = <<>>
               /\ k > 0 => /\ Len(rejections) = 1
                           /\ rejections[1].site = CheckOrder[k]
                           /\ tasks[t].call.msg = rejections[1]
               /\ (command.disabled /\ command.superUserOnly /\ i.user # Owner)
                      => rejections = <<DisabledMessage>>

C1_Witness ==
    \E t \in TaskIds :
        /\ Processed(t)
        /\ CommandOf(t).disabled /\ CommandOf(t).superUserOnly
        /\ tasks[t].i.user # Owner
        /\ tasks[t].replies = <<DisabledMessage>>

\* The identifier of the caller's bucket in a scope.
CallerId(t, s) ==
    CASE s = "global" -> tasks[t].i.name
      [] s = "guild" -> tasks[t].i.guild
      [] s = "user" -> tasks[t].i.user

BucketBefore(t, s) == tasks[t].before[s][CallerId(t, s)]
BucketAfter(t, s) == tasks[t].after[s][CallerId(t, s)]
IsLimited(b, t) == b.exists /\ limited(b, t)

\* The scopes of the policy that are limited for the caller when the
\* evaluation starts (the guild scope only in a guild).
LimitedScopes(t) ==
    { s \in Scopes :
        /\ CommandOf(t).ratelimit[s]
        /\ s = "guild" => tasks[t].i.guild # NoGuild
        /\ IsLimited(BucketBefore(t, s), tasks[t].at) }

RateLimitSteps ==
    { <<k, s>> : k \in {"acquire", "strict", "passive", "consume"},
                 s \in Scopes }

Evaluates(t) ==
    /\ Processed(t)
    /\ \E k \in DOMAIN tasks[t].trace :
           tasks[t].trace[k] \in {<<"strict", "global">>, <<"passive", "global">>}


\* C3: with a strict user scope of limit 1 and a window of 60000 ms, the
\* first dispatch by a non-owner U proceeds to the handler, a second one less
\* than 60 s later is rejected as rate-limited at user scope with
\* remainingTime <= 60000, and one after the window proceeds again. (Under a
\* user-only policy U's bucket exists unexhausted only after a dispatch by U
\* that ran the handler.)
C3_SecondDispatchLimited ==
    \A t \in TaskIds :
        (/\ Evaluates(t)
         /\ CommandOf(t).ratelimit = UserOnlyPolicy) =>
            LET b == BucketBefore(t, "user")
                within == tasks[t].at < b.windowStart + windowDurationMs
            IN /\ ~b.exists => tasks[t].call = RunCall
               /\ (b.exists /\ within) =>
                      /\ tasks[t].call.kind = "createMessage"
                      /\ tasks[t].call.msg.site = "user"
                      /\ tasks[t].call.msg.arg[1] <= windowDurationMs
               /\ (b.exists /\ ~within) => tasks[t].call = RunCall

\* C4 as stated: an owner invocation is never rejected by an authorization
\* check, whatever the descriptor and the bot's permission set.
C4_OwnerNeverRejected ==
    \A t \in TaskIds :
        (Processed(t) /\ tasks[t].i.user = Owner) =>
            RepliesFrom(t, AuthorizationSites) = <<>>

\* C4 (amended): an owner invocation is never rejected by the disabled,
\* superUserOnly, premiumOnly, helperUserOnly or requiredUserPermissions
\* check; requiredBotPermissions is not bypassed: it rejects the owner
\* exactly when the bot lacks a required permission.
C4_OwnerBypass ==
    \A t \in TaskIds :
        (Processed(t) /\ tasks[t].i.user = Owner) =>
            /\ RepliesFrom(t, AuthorizationSites
                                \ {"requiredBotPermissions"}) = <<>>
            /\ (RepliesFrom(t, {"requiredBotPermissions"}) # <<>>) <=>
                   Fails("requiredBotPermissions", CommandOf(t), tasks[t].i)

C4_Witness ==
    \E t \in TaskIds :
        /\ tasks[t].i.user = Owner
        /\ tasks[t].runs = 1
        /\ CommandOf(t).disabled /\ CommandOf(t).superUserOnly
        /\ CommandOf(t).premiumOnly /\ CommandOf(t).helperUserOnly
        /\ CommandOf(t).requiredUserPermissions.defined
        /\ ~tasks[t].i.memberPermissions.defined

\* C5: for a disabled command on which no other check fails, an owner
\* proceeds to the handler, and a non-owner is rejected with the disabled
\* message without the handler being invoked.
C5_DisabledCommand ==
    \A t \in TaskIds :
        (/\ Processed(t)
         /\ CommandOf(t).disabled
         /\ FailingChecks(CommandOf(t), tasks[t].i) \subseteq {1}) =>
            IF tasks[t].i.user = Owner
            THEN tasks[t].call = RunCall /\ tasks[t].runs = 1
            ELSE /\ tasks[t].call = CreateMessageCall(DisabledMessage)
                 /\ tasks[t].runs = 0

C5_Witness ==
    \E t \in TaskIds :
        /\ tasks[t].i.user = Owner
        /\ CommandOf(t).disabled
        /\ CommandOf(t).ratelimit.defined
        /\ tasks[t].runs = 1
        /\ tasks[t].pc = "done"

\* C6: when the global scope is strict and limited, the evaluation neither
\* acquires nor consumes in the guild and user scopes: their managers are
\* after the call as they were before it.
C6_GlobalShortCircuit ==
    \A t \in TaskIds :
        (/\ Evaluates(t)
         /\ CommandOf(t).ratelimit.global
         /\ IsLimited(BucketBefore(t, "global"), tasks[t].at)) =>
            /\ tasks[t].after["guild"] = tasks[t].before["guild"]
            /\ tasks[t].after["user"] = tasks[t].before["user"]
            /\ ~InTrace(t, <<"acquire", "guild">>)
            /\ ~InTrace(t, <<"acquire", "user">>)

C8_StrictNeverConsumed ==
    [][\A n \in RegisteredNames : \A s \in Scopes : \A id \in Ids :
          commandStoreMap[n].ratelimit[s] =>
              /\ buckets'[n][s][id].count <= buckets[n][s][id].count
              /\ ~IsLimited(buckets[n][s][id], now)
                     => ~IsLimited(buckets'[n][s][id], now')]_vars

C8_Witness ==
    \E t \in TaskIds :
        /\ InTrace(t, <<"strict", "user">>)
        /\ InTrace(t, <<"strict", "global">>)
        /\ tasks[t].runs = 1
        /\ BucketAfter(t, "user") = FreshBucket(tasks[t].at)
        /\ BucketAfter(t, "global").count = 0

\* C9: a scope absent from a command's policy is never checked and never
\* consumes: no dispatch acquires, creates or changes a bucket of that scope,
\* and no rejection is attributed to it.
C9_AbsentScopeUntouched ==
    \A n \in RegisteredNames : \A s \in Scopes :
        ~commandStoreMap[n].ratelimit[s] =>
            /\ \A id \in Ids : ~buckets[n][s][id].exists
            /\ \A t \in TaskIds :
                   (Processed(t) /\ tasks[t].i.name = n) =>
                       /\ tasks[t].after[s] = tasks[t].before[s]
                       /\ \A k \in {"acquire", "strict", "consume"} :
                              ~InTrace(t, <<k, s>>)
                       /\ RepliesFrom(t, {s}) = <<>>

C9_Witness ==
    \E t \in TaskIds :
        /\ Evaluates(t)
        /\ CommandOf(t).ratelimit = UserOnlyPolicy
        /\ tasks[t].i.guild # NoGuild
        /\ InTrace(t, <<"acquire", "user">>)
        /\ tasks[t].runs = 1

\* C10: outside a guild the guild scope is skipped: the guild manager is not
\* acquired, no guild bucket is created or consumed and the invocation is
\* not rejected with the guild message, even if the policy has a guild scope.
C10_NoGuildNoGuildScope ==
    \A t \in TaskIds :
        (Processed(t) /\ tasks[t].i.guild = NoGuild) =>
            /\ tasks[t].after["guild"] = tasks[t].before["guild"]
            /\ \A k \in {"acquire", "strict", "passive", "consume"} :
                   ~InTrace(t, <<k, "guild">>)
            /\ RepliesFrom(t, {"guild"}) = <<>>

C10_Witness ==
    \E t \in TaskIds :
        /\ Evaluates(t)
        /\ tasks[t].i.guild = NoGuild
        /\ CommandOf(t).ratelimit.guild
        /\ \E g \in Guilds : IsLimited(tasks[t].before["guild"][g], tasks[t].at)
        /\ tasks[t].runs = 1

\* C11: for a command name absent from the registry the event is answered
\* with the command-not-found message; no authorization check and no
\* rate-limit scope produces a reply, no bucket is acquired, created or
\* consumed, and no handler runs.
C11_UnknownCommand ==
    \A t \in DOMAIN tasks :
        (Processed(t) /\ ~CommandOf(t).defined) =>
            /\ tasks[t].call = CreateMessageCall(NotFoundMessage)
            /\ tasks[t].replies[1] = NotFoundMessage
            /\ RepliesFrom(t, AuthorizationSites \cup Scopes) = <<>>
            /\ \A k \in DOMAIN tasks[t].trace :
                   tasks[t].trace[k] \notin RateLimitSteps \cup {<<"run", "run">>}
            /\ tasks[t].runs = 0
            /\ tasks[t].after = tasks[t].before
            /\ \A n \in DOMAIN buckets : \A sc \in Scopes :
                   ~buckets[n][sc][tasks[t].i.name].exists

C11_Witness ==
    \E t \in DOMAIN tasks :
        /\ tasks[t].pc = "done"
        /\ ~tasks[t].errored
        /\ tasks[t].i.name \notin DOMAIN commandStoreMap
        /\ tasks[t].i.user # Owner
        /\ tasks[t].replies = <<NotFoundMessage>>

\* What ended the invocation of t: the handler threw, or it returned.
HandlerThrew(t) == tasks[t].call.kind = "run" /\ tasks[t].error = "handler"
HandlerReturned(t) ==
    tasks[t].call.kind = "run" /\ tasks[t].pc = "done" /\ tasks[t].error = "none"

\* C12: when the handler throws, the generic error message, which carries the
\* command name only, is sent once, and the failure counter is incremented
\* once outside development mode (by the one update the catch block issues,
\* when that update resolves) and not at all in development mode; when the
\* handler returns normally there is neither an error message nor an
\* increment.
C12_HandlerFailureCounted ==
    \A t \in DOMAIN tasks :
        /\ (HandlerThrew(t) /\ tasks[t].pc \in {"failing", "done"}) =>
               /\ tasks[t].errored
               /\ RepliesFrom(t, {"error"}) = <<ErrorMessage(tasks[t].i.name)>>
               /\ Last(tasks[t].replies).arg = <<tasks[t].i.name>>
               /\ config.IsInDevelopmentMode =>
                      tasks[t].pc = "done" /\ tasks[t].failed = 0
                                           /\ ~tasks[t].propagated
               /\ (~config.IsInDevelopmentMode /\ tasks[t].pc = "done") =>
                      tasks[t].failed = IF tasks[t].propagated THEN 0 ELSE 1
        /\ HandlerReturned(t) =>
               /\ ~tasks[t].errored
               /\ RepliesFrom(t, {"error"}) = <<>>
               /\ tasks[t].failed = 0

C12_Witness ==
    \E t \in DOMAIN tasks :
        /\ HandlerThrew(t)
        /\ tasks[t].pc = "done"
        /\ ~config.IsInDevelopmentMode
        /\ tasks[t].failed = 1
        /\ tasks[t].replies = <<ErrorMessage(tasks[t].i.name)>>

\* C13: for every event and every behaviour of the collaborators (the reply,
\* the telemetry update and the handler may each fail) the listener
\* completes without a failure propagating to its caller.
C13_NothingPropagates ==
    \A t \in DOMAIN tasks : ~tasks[t].propagated

\* C14: when the commands_executed update fails, no error message is sent,
\* nothing reaches the caller, and the command is still resolved, authorized,
\* rate-limited and executed as if the update had succeeded.
C14_TelemetryFailureInvisible ==
    \A t \in DOMAIN tasks :
        (tasks[t].error = "telemetry" /\ tasks[t].pc = "done") =>
            /\ RepliesFrom(t, {"error"}) = <<>>
            /\ ~tasks[t].errored
            /\ Processed(t)

\* The invocation of t ended with a rejection: an authorization check, a
\* rate-limit scope or the missing command chose a reply instead of run.
Rejected(t) ==
    /\ tasks[t].call.kind = "createMessage"
    /\ tasks[t].call.msg.site \in AuthorizationSites \cup Scopes \cup {"notFound"}

\* C15: the generic error message and the failure-counter increment occur
\* only for events whose handler was invoked and threw; a rejected event
\* never produces them, even when sending its rejection reply fails.
C15_ErroredOnlyFromExecuting ==
    \A t \in DOMAIN tasks :
        /\ (tasks[t].errored \/ tasks[t].failed > 0) => HandlerThrew(t)
        /\ Rejected(t) =>
               /\ RepliesFrom(t, {"error"}) = <<>>
               /\ tasks[t].failed = 0

\* The embeds of a payload: the description the recipient reads, which is
\* the text with its interpolated argument. The flags (ephemeral) decide who
\* sees the reply, not what it says.
Embeds(m) == [text |-> m.text, arg |-> m.arg]

\* The lists a command may require of the bot or of the member.
RequiredLists == {BotPermissionList, UserPermissionList}

\* The rejection messages each authorization check can yield.
RejectionsOf(check) ==
    CASE check = "disabled" -> {DisabledMessage}
      [] check = "superUserOnly" -> {SuperUserOnlyMessage}
      [] check = "premiumOnly" -> {PremiumOnlyMessage}
      [] check = "helperUserOnly" -> {HelperUserOnlyMessage}
      [] check = "requiredBotPermissions" ->
             { BotPermissionsMessage(l) : l \in RequiredLists }
      [] check = "requiredUserPermissions" ->
             { UserPermissionsMessage(l) : l \in RequiredLists }

\* C19: the rejection an authorization check sends reads differently from
\* every rejection any other check can send, for every pair of required
\* lists, equal lists included: the message alone identifies the check.
C19_RejectionsDistinct ==
    \A t \in DOMAIN tasks :
        (Processed(t) /\ tasks[t].call.kind = "createMessage"
                      /\ tasks[t].call.msg.site \in AuthorizationSites) =>
            \A other \in AuthorizationSites \ {tasks[t].call.msg.site} :
                \A m \in RejectionsOf(other) :
                    Embeds(tasks[t].call.msg) # Embeds(m)

\* The invocation of t has acquired a bucket; it has chosen its outcome, a
\* reply or the handler.
Acquired(t) ==
    \E k \in DOMAIN tasks[t].trace : tasks[t].trace[k][1] = "acquire"
Decided(t) == tasks[t].call.kind \in {"createMessage", "run"}

\* C17: with invocations overlapping, the rate-limit step of an event is
\* atomic. No invocation is ever suspended between its first acquire and its
\* decision, and a step that changes a bucket is the step of one invocation,
\* which decides in that step on the buckets it found and left, while no
\* other invocation moves.
C17_RateLimitAtomic ==
    /\ [](\A t \in DOMAIN tasks : Acquired(t) => Decided(t))
    /\ [][ buckets' # buckets =>
             \E t \in DOMAIN tasks :
                 /\ tasks[t].pc = "telemetry"
                 /\ tasks'[t].call.kind \in {"createMessage", "run"}
                 /\ tasks'[t].before = buckets[tasks[t].i.name]
                 /\ tasks'[t].after = buckets'[tasks[t].i.name]
                 /\ \A u \in DOMAIN tasks \ {t} : tasks'[u] = tasks[u] ]_vars

\* Two invocations in flight at once: the first created buckets and decided,
\* and the second was evaluated on them while the first was still suspended.
C17_Witness ==
    \E t, u \in DOMAIN tasks :
        /\ t # u
        /\ tasks[t].pc = "awaiting" /\ tasks[u].pc = "awaiting"
        /\ Acquired(t) /\ Acquired(u)
        /\ tasks[t].arrival < tasks[u].arrival
        /\ tasks[t].after # tasks[t].before
        /\ tasks[u].before = tasks[t].after

\* C18: for one caller whose interactions are received in the order e1, e2,
\* the rate-limit evaluation of e1 comes before that of e2, whatever the
\* order in which their commands_executed updates complete: e2 is never
\* evaluated while e1 still awaits its update.
C18_EvaluatedInOrderOfReceipt ==
    \A t, u \in DOMAIN tasks :
        (/\ tasks[t].i.user = tasks[u].i.user
         /\ 0 < tasks[t].arrival
         /\ tasks[t].arrival < tasks[u].arrival
         /\ Evaluates(u))
            => tasks[t].pc # "telemetry"

\* C16: a dispatch of command C by user X in guild G changes no bucket of
\* another command, and in C's managers no bucket but the global one keyed
\* by C, the guild one keyed by G and the user one keyed by X: the bucket of
\* another user, guild or command, and every bucket of a scope under an
\* identifier of another scope, stay as they were.
C16_ScopesIndependent ==
    [][ \A t \in DOMAIN tasks :
           (tasks[t].pc = "telemetry" /\ tasks'[t].pc = "awaiting") =>
               \A n \in DOMAIN buckets : \A sc \in Scopes : \A id \in WideIds :
                   buckets'[n][sc][id] # buckets[n][sc][id] =>
                       /\ n = tasks[t].i.name
                       /\ id = CallerId(t, sc) ]_vars

\* A dispatch of the second command by the second user in the second guild
\* created its three buckets while the first command's buckets of the first
\* user and guild existed.
C16_Witness ==
    \E t \in DOMAIN tasks :
        /\ tasks[t].pc = "awaiting"
        /\ tasks[t].i = Interaction(OtherName, OtherUser, OtherGuild, FALSE,
                                    FullPermissions, FullPermissions)
        /\ \A sc \in Scopes :
               /\ ~tasks[t].before[sc][CallerId(t, sc)].exists
               /\ tasks[t].after[sc][CallerId(t, sc)].exists
        /\ \E n \in RegisteredNames :
               /\ buckets[n]["global"][n].exists
               /\ \E g \in Guilds : buckets[n]["guild"][g].exists
               /\ \E u \in Users : buckets[n]["user"][u].exists

\* The plugin call each mutating subcommand makes.
MutationOf(sub) ==
    CASE sub = "create" -> "CreateTag"
      [] sub = "delete" -> "DeleteTag"
      [] sub = "edit" -> "UpdateTag"
      [] OTHER -> "none"

\* C20: in the tag command CreateTag, DeleteTag and UpdateTag are invoked
\* only for a member whose permissions contain MANAGE_MESSAGES, the owner
\* included, and only by their own subcommand; list and view invoke none of
\* them, are never answered with the permission notice, and the tag
\* documents change only when such a call resolves.
C20_MutationsNeedManageMessages ==
    /\ [](\A r \in DOMAIN tagRuns :
            LET i == tagRuns[r].i
            IN /\ tagRuns[r].op # "none" =>
                      /\ "MANAGE_MESSAGES" \in i.member.allow
                      /\ tagRuns[r].op = MutationOf(i.sub)
               /\ i.sub \in {"list", "view"} =>
                      /\ tagRuns[r].op = "none"
                      /\ tagRuns[r].reply # "needPermission"
               /\ (tagRuns[r].pc \in {"store", "followup", "done"}
                      /\ "MANAGE_MESSAGES" \notin i.member.allow
                      /\ i.sub \in {"create", "delete", "edit"}) =>
                      tagRuns[r].reply = "needPermission")
    /\ [][ tags' # tags =>
             \E r \in DOMAIN tagRuns :
                 /\ tagRuns[r].pc = "store"
                 /\ "MANAGE_MESSAGES" \in tagRuns[r].i.member.allow
                 /\ tagRuns[r].i.sub \in {"create", "delete", "edit"} ]_vars

\* A member with Manage Messages has edited one of the guild's tags.
C20_Witness ==
    \E r \in DOMAIN tagRuns :
        /\ tagRuns[r].pc = "done"
        /\ tagRuns[r].i.sub = "edit"
        /\ tagRuns[r].op = "UpdateTag"
        /\ tagRuns[r].reply = "edited"
        /\ tagRuns[r].i.user # Owner
        /\ GetTag(tags, tagRuns[r].i.guild, tagRuns[r].i.name)
        /\ Len(tags) = MAX_CREATED_TAGS

\* C21: an owner is exempt from rate limiting: for an owner invocation no
\* manager is acquired, no bucket is created, refreshed or consumed, no
\* scope is evaluated and no rate-limit rejection is sent, whatever the
\* policy of the command and the state of its buckets.
C21_OwnerNotRateLimited ==
    \A t \in DOMAIN tasks :
        (Processed(t) /\ isOwner(tasks[t].i.user)) =>
            /\ \A k \in DOMAIN tasks[t].trace :
                   tasks[t].trace[k] \notin RateLimitSteps
            /\ tasks[t].after = tasks[t].before
            /\ RepliesFrom(t, Scopes) = <<>>
            /\ \A n \in DOMAIN buckets : \A sc \in Scopes :
                   ~buckets[n][sc][Owner].exists

\* The owner ran a command limited in every scope while its global and
\* guild buckets were exhausted.
C21_Witness ==
    \E t \in DOMAIN tasks :
        /\ isOwner(tasks[t].i.user)
        /\ tasks[t].pc = "done"
        /\ tasks[t].runs = 1
        /\ CommandOf(t).ratelimit = FullPolicy
        /\ tasks[t].i.guild # NoGuild
        /\ IsLimited(BucketBefore(t, "global"), tasks[t].at)
        /\ IsLimited(BucketBefore(t, "guild"), tasks[t].at)

\* Interactions whose commands_executed update is still awaited.
AwaitingTelemetry == { t \in DOMAIN tasks : tasks[t].pc = "telemetry" }

\* C22: with every update succeeding, commands_executed is incremented once
\* per interaction received, when its update resolves and before the command
\* is resolved: the counter equals the interactions received less those
\* still awaiting the update, hence the number received once none is in
\* flight, whether they ended in the handler or rejected.
C22_ExecutedCountsReceived ==
    /\ stats.commands_executed = Arrivals - Cardinality(AwaitingTelemetry)
    /\ \A t \in DOMAIN tasks :
           /\ tasks[t].executed =
                  IF tasks[t].pc \in {"idle", "telemetry"} THEN 0 ELSE 1
           /\ Processed(t) => tasks[t].executed = 1
    /\ (\A t \in DOMAIN tasks : Settled(t)) =>
           stats.commands_executed = Arrivals

\* Two interactions received and settled, one rejected as rate-limited and
\* one as not found: the counter is two and no handler ran.
C22_Witness ==
    /\ \A t \in DOMAIN tasks : tasks[t].pc = "done"
    /\ Arrivals = 2
    /\ stats.commands_executed = 2
    /\ \E t, u \in DOMAIN tasks :
           /\ RepliesFrom(t, {"user"}) # <<>>
           /\ RepliesFrom(u, {"notFound"}) # <<>>
    /\ \A t \in DOMAIN tasks : tasks[t].runs = 0

\* No call of the plugin is between its query and its continuation.
JamQuiescent == \A o \in DOMAIN jamOps : jamOps[o].pc \in {"idle", "done"}

\* C23: with caching enabled, whenever no plugin operation is in flight the
\* cache holds an entry for a guild iff the store holds a jam for it, and
\* the cached document equals the stored one.
C23_CacheCoherent ==
    (~cachingDisabled /\ JamQuiescent) =>
        \A g \in Guilds : jamCache[g] = jamStore[g]

\* C24: whatever the interleaving of concurrent create invocations in a
\* guild, no two tags of the guild have the same name and the guild never
\* holds more tags than the limit.
C24_NoDuplicateNoOverLimit ==
    /\ \A j, k \in DOMAIN tags :
           (j # k /\ tags[j].guild = tags[k].guild) =>
               tags[j].name # tags[k].name
    /\ \A g \in Guilds : Len(GetTags(tags, g)) <= MAX_CREATED_TAGS

====
